---- MODULE Spec2Model ----
(***************************************************************************)
(* The dynamic-auth example servers of examples/mcp/dynamic-auth:          *)
(* auth_server.py (and, further down, the simplified server.py).           *)
(*                                                                         *)
(* The program state is the module-level globals `authenticated` and       *)
(* `user_data` and the tool table app._tool_manager._tools (an insertion-  *)
(* ordered dict).  Tool handlers are coroutines run by one asyncio event   *)
(* loop: a handler runs without interruption up to an `await` that really  *)
(* suspends, so every action below is one such segment of a handler.  The  *)
(* only suspension point of the handlers is                                *)
(* `await context.session.send_tool_list_changed()`.                       *)
(***************************************************************************)
EXTENDS Integers, Sequences, FiniteSets, TLC

VARIABLES
    authenticated,  \* global `authenticated`
    user_data,      \* global dict `user_data`
    tools,          \* app._tool_manager._tools, in insertion order
    calls,          \* the handlers suspended in an await, one per request slot
    response,       \* the last tool result returned to the client
    sent,           \* number of ToolListChangedNotification sent so far
    failed,         \* number of sends of the notification that raised
    hist,           \* observation: the last authenticate/logout handler runs
    form,           \* the ElicitationForm object of elicitation_form.py
    elicitation_state,  \* servers whose elicitations are disabled
    in_multiline_mode,  \* global `in_multiline_mode` of enhanced_prompt.py
    session         \* the PromptSession of the current get_enhanced_input call

\* The globals and tool table of the dynamic-auth servers.
server_vars == <<authenticated, user_data, tools, calls, response, sent, failed, hist>>
\* The state of the interactive input code (elicitation form, prompt).
input_vars == <<form, elicitation_state, in_multiline_mode, session>>

vars == <<authenticated, user_data, tools, calls, response, sent, failed, hist,
          form, elicitation_state, in_multiline_mode, session>>

(***************************************************************************)
(* Bounds of the model.                                                    *)
(***************************************************************************)
\* Number of handlers that may be suspended in their await together.
MaxCalls == 2
\* authenticate/logout handlers are no longer started once this many
\* notifications are sent or pending (caps the counter `sent`).
MaxSent == 3

\* Longest text of the multiline form field and of the prompt's buffer.
MaxText == 2
\* Ctrl+T is no longer taken once the prompt's mode was toggled this often.
MaxToggles == 3

Slots == 1..MaxCalls

(***************************************************************************)
(* Static data of auth_server.py.                                          *)
(***************************************************************************)
\* Python's None; an f-string prints it as the text None.
None == "None"

VALID_CREDENTIALS ==
    [admin |-> [password |-> "admin123", role |-> "administrator"],
     user  |-> [password |-> "user123",  role |-> "user"]]

InitialUserData ==
    [username      |-> None,
     role          |-> None,
     files         |-> <<"document1.txt", "document2.txt", "secret_report.pdf">>,
     api_endpoints |-> <<"/users", "/data", "/analytics">>]

AuthenticateTool ==
    [name        |-> "authenticate",
     description |-> "Authenticate with username and password to access protected resources"]

\* Mutant: logout is registered at import as well.
InitialTools_with_logout ==
    <<AuthenticateTool,
      [name |-> "logout", description |-> "Logout and return to authentication state"]>>

\* The tool table after import: the @app.tool decorator registered authenticate.
InitialTools == <<AuthenticateTool>>

\* Arguments the clients of the model send.
Usernames == {"admin", "user", "nobody"}
Passwords == {"admin123", "user123", "wrong"}
Filenames == {"document1.txt", "secret_report.pdf", "nonexistent.txt"}
Endpoints == {"/analytics", "/admin"}

(***************************************************************************)
(* The tool table.                                                         *)
(***************************************************************************)
Range(s) == {s[k] : k \in 1..Len(s)}

ToolNames(ts) == {ts[k].name : k \in 1..Len(ts)}

\* Mutant: the authenticate tool is never deleted.
RemoveTool_sparing_authenticate(ts, name) ==
    IF name = "authenticate" THEN ts ELSE SelectSeq(ts, LAMBDA d : d.name # name)

\* `if name in app._tool_manager._tools: del app._tool_manager._tools[name]`
RemoveTool(ts, name) == SelectSeq(ts, LAMBDA d : d.name # name)

\* app.add_tool(fn, name=..., description=...): a new name is appended to the
\* dict; for a name already present the tool manager keeps the existing entry.
add_tool(ts, name, description) ==
    IF name \in ToolNames(ts)
    THEN ts
    ELSE Append(ts, [name |-> name, description |-> description])

\* Mutant: the loop over protected_tools ends after its first iteration.
RemoveTools_first_only(ts, names) ==
    IF names = <<>> THEN ts ELSE SelectSeq(ts, LAMBDA d : d.name # Head(names))

RECURSIVE RemoveTools(_, _)
\* `for tool_name in protected_tools: if tool_name in tools: del tools[tool_name]`
RemoveTools(ts, names) ==
    IF names = <<>> THEN ts
    ELSE RemoveTools(RemoveTool(ts, Head(names)), Tail(names))

(***************************************************************************)
(* auth_server.py: authenticate.                                           *)
(***************************************************************************)
\* Mutant: the password is not compared.
CredentialsValid_username_only(username, password) ==
    username \in DOMAIN VALID_CREDENTIALS

\* `username in VALID_CREDENTIALS and VALID_CREDENTIALS[username]["password"] == password`
CredentialsValid(username, password) ==
    /\ username \in DOMAIN VALID_CREDENTIALS
    /\ VALID_CREDENTIALS[username].password = password

\* Mutant: a role that is set is kept; only the username is replaced.
LoggedIn_keeping_role(ud, username) ==
    [ud EXCEPT !.username = username,
               !.role = IF ud.role = None THEN VALID_CREDENTIALS[username].role
                        ELSE ud.role]

\* user_data["username"] = username; user_data["role"] = VALID_CREDENTIALS[username]["role"]
LoggedIn(ud, username) ==
    [ud EXCEPT !.username = username, !.role = VALID_CREDENTIALS[username].role]

\* Mutant: the role user is given no logout tool.
RegisterProtectedTools_without_user_logout(ts, role) ==
    IF role = "administrator"
    THEN add_tool(add_tool(add_tool(add_tool(add_tool(ts,
             "list_files", "List available files (admin access)"),
             "read_file", "Read file contents (admin access)"),
             "get_user_info", "Get current user information"),
             "call_api", "Call API endpoints (admin access)"),
             "logout", "Logout and return to authentication state")
    ELSE add_tool(add_tool(ts,
             "list_files", "List available files (user access)"),
             "get_user_info", "Get current user information")

\* Mutant: every role is given the administrator's tools.
RegisterProtectedTools_ignoring_role(ts, role) ==
    add_tool(add_tool(add_tool(add_tool(add_tool(ts,
        "list_files", "List available files (admin access)"),
        "read_file", "Read file contents (admin access)"),
        "get_user_info", "Get current user information"),
        "call_api", "Call API endpoints (admin access)"),
        "logout", "Logout and return to authentication state")

\* "Add protected tools based on role": five app.add_tool calls for an
\* administrator, three for anybody else.
RegisterProtectedTools(ts, role) ==
    IF role = "administrator"
    THEN add_tool(add_tool(add_tool(add_tool(add_tool(ts,
             "list_files", "List available files (admin access)"),
             "read_file", "Read file contents (admin access)"),
             "get_user_info", "Get current user information"),
             "call_api", "Call API endpoints (admin access)"),
             "logout", "Logout and return to authentication state")
    ELSE add_tool(add_tool(add_tool(ts,
             "list_files", "List available files (user access)"),
             "get_user_info", "Get current user information"),
             "logout", "Logout and return to authentication state")

\* Mutant: the authenticate tool is not removed.
authenticate_tools_keeps_authenticate(ts, role) ==
    IF role = "administrator"
    THEN add_tool(add_tool(add_tool(add_tool(add_tool(ts,
             "list_files", "List available files (admin access)"),
             "read_file", "Read file contents (admin access)"),
             "get_user_info", "Get current user information"),
             "call_api", "Call API endpoints (admin access)"),
             "logout", "Logout and return to authentication state")
    ELSE add_tool(add_tool(add_tool(ts,
             "list_files", "List available files (user access)"),
             "get_user_info", "Get current user information"),
             "logout", "Logout and return to authentication state")

\* The tool table after a successful authenticate: the authenticate tool is
\* removed, then the role's protected tools are added.
authenticate_tools(ts, role) ==
    RegisterProtectedTools(RemoveTool(ts, "authenticate"), role)

AuthFailedMsg == <<"Authentication failed. Invalid username or password.">>

\* The f-string returned after the notification; `role` is user_data["role"]
\* as read when the handler resumes.
AuthSuccessMsg(username, role) ==
    <<"Authentication successful! Welcome ", username, " (", role,
      "). New tools are now available.">>

(***************************************************************************)
(* auth_server.py: logout.                                                 *)
(***************************************************************************)
\* Mutant: the list of server.py, without call_api.
protected_tools_without_call_api == <<"list_files", "read_file", "get_user_info", "logout">>

protected_tools == <<"list_files", "read_file", "get_user_info", "call_api", "logout">>

\* Mutant: logout resets the whole of user_data, the file list with it.
LoggedOut_clearing_files(ud) ==
    [ud EXCEPT !.username = None, !.role = None, !.files = <<>>]

\* Mutant: the role is not cleared.
LoggedOut_keeps_role(ud) == [ud EXCEPT !.username = None]

\* user_data["username"] = None; user_data["role"] = None
LoggedOut(ud) == [ud EXCEPT !.username = None, !.role = None]

\* Mutant: `del` without the `if tool_name in ...` test.  The first protected
\* tool that is not registered raises KeyError, which ends the handler: the
\* later tools stay and authenticate is not added again.
logout_tools_unguarded_del(ts) ==
    LET names   == <<"list_files", "read_file", "get_user_info", "call_api", "logout">>
        missing == {k \in 1..Len(names) : names[k] \notin ToolNames(ts)}
    IN IF missing = {}
       THEN add_tool(RemoveTools(ts, names), AuthenticateTool.name,
                     AuthenticateTool.description)
       ELSE RemoveTools(ts, SubSeq(names, 1,
                (CHOOSE m \in missing : \A n \in missing : m <= n) - 1))

\* Mutant: the authenticate tool is added again only after the await, so
\* the tool table is empty while the logout waits in its send.
logout_tools_readd_after_await(ts) == RemoveTools(ts, protected_tools)

\* Mutant: logout removes the tools of the role user only.
logout_tools_keeping_admin_tools(ts) ==
    add_tool(RemoveTools(ts, <<"list_files", "get_user_info", "logout">>),
             AuthenticateTool.name, AuthenticateTool.description)

\* "Remove all protected tools", then "Re-add the authenticate tool".
logout_tools(ts) ==
    add_tool(RemoveTools(ts, protected_tools),
             AuthenticateTool.name, AuthenticateTool.description)

AlreadyLoggedOutMsg == <<"Already logged out">>

\* `username` is the local captured before the session fields are cleared.
LogoutSuccessMsg(username) ==
    <<"Logout successful for ", username,
      ". You can authenticate again to access protected resources.">>

(***************************************************************************)
(* auth_server.py: the protected handlers.  Each returns a string and      *)
(* assigns nothing.                                                        *)
(***************************************************************************)
NotAuthenticatedMsg == <<"Error: Not authenticated">>
AdminRequiredMsg == <<"Error: Administrator access required">>

\* Python's `"secret" not in f.lower()` for the file names of the model.
IsSecret(f) == f \in {"secret_report.pdf", "secret.pdf"}

\* Mutant: list_files without the filter for the role user.
list_files_result_unfiltered(auth, ud) ==
    IF ~auth THEN NotAuthenticatedMsg
    ELSE <<"Available files for ", ud.username, " (", ud.role, "):">> \o ud.files

list_files_result(auth, ud) ==
    IF ~auth THEN NotAuthenticatedMsg
    ELSE LET files == IF ud.role = "user"
                      THEN SelectSeq(ud.files, LAMBDA f : ~IsSecret(f))
                      ELSE ud.files
         IN <<"Available files for ", ud.username, " (", ud.role, "):">> \o files

\* Mutant: read_file looks for the file before it tests the role.
read_file_result_existence_first(auth, ud, filename) ==
    IF ~auth THEN NotAuthenticatedMsg
    ELSE IF filename \notin Range(ud.files)
         THEN <<"Error: File '", filename, "' not found">>
    ELSE IF ud.role # "administrator" THEN AdminRequiredMsg
    ELSE <<"Contents of ", filename, ":", "[Simulated file content for demonstration]">>

\* Mutant: read_file without its role check.
read_file_result_without_role_check(auth, ud, filename) ==
    IF ~auth THEN NotAuthenticatedMsg
    ELSE IF filename \notin Range(ud.files)
         THEN <<"Error: File '", filename, "' not found">>
    ELSE <<"Contents of ", filename, ":", "[Simulated file content for demonstration]">>

read_file_result(auth, ud, filename) ==
    IF ~auth THEN NotAuthenticatedMsg
    ELSE IF ud.role # "administrator" THEN AdminRequiredMsg
    ELSE IF filename \notin Range(ud.files)
         THEN <<"Error: File '", filename, "' not found">>
    ELSE <<"Contents of ", filename, ":", "[Simulated file content for demonstration]">>

get_user_info_result(auth, ud) ==
    IF ~auth THEN NotAuthenticatedMsg
    ELSE <<"User: ", ud.username, "Role: ", ud.role, "Authenticated: ", "True">>

\* Mutant: call_api without the test of the endpoint list.
call_api_result_without_allow_list(auth, ud, endpoint) ==
    IF ~auth THEN NotAuthenticatedMsg
    ELSE IF ud.role # "administrator" THEN AdminRequiredMsg
    ELSE <<"API call to ", endpoint, ":", "[Simulated API response for demonstration]">>

call_api_result(auth, ud, endpoint) ==
    IF ~auth THEN NotAuthenticatedMsg
    ELSE IF ud.role # "administrator" THEN AdminRequiredMsg
    ELSE IF endpoint \notin Range(ud.api_endpoints)
         THEN <<"Error: Endpoint '", endpoint, "' not available">>
    ELSE <<"API call to ", endpoint, ":", "[Simulated API response for demonstration]">>

(***************************************************************************)
(* Tool calls.  Each request is served by its own task; a slot of `calls`  *)
(* holds a handler from its start to its return.  pc is the place of the   *)
(* handler's coroutine:                                                    *)
(*   "idle"  no handler is running in this slot                            *)
(*   "send"  suspended in `await context.session.send_tool_list_changed()`,*)
(*           the notification not yet written to the session               *)
(*   "sent"  the notification is written, the handler not yet resumed      *)
(* `username` is the handler's local of that name (authenticate's          *)
(* parameter, logout's capture of user_data["username"]).  A handler that  *)
(* returns puts its value in `response`: the tool result the client        *)
(* receives, with the tool's name and whether that call sent its           *)
(* notification.                                                           *)
(***************************************************************************)
IdleCall == [pc |-> "idle", op |-> None, username |-> None, committed |-> FALSE]

\* A handler that reached its await of send_tool_list_changed; `committed`:
\* the statements before the await changed the tool table.
Suspended(op, username, committed) ==
    [pc |-> "send", op |-> op, username |-> username, committed |-> committed]

NoResponse == [op |-> None, result |-> <<>>, notified |-> FALSE]

\* A handler that returned `result`.
Returned(op, result, notified) == [op |-> op, result |-> result, notified |-> notified]

\* Mutant: send_tool_list_changed() is called without `await`, so the
\* coroutine never runs and the handler returns its message at once.
authenticate_stop_without_send(valid, username, role) ==
    IF valid THEN [pc |-> "return", result |-> AuthSuccessMsg(username, role)]
    ELSE [pc |-> "return", result |-> AuthFailedMsg]

\* Mutant: the notification is sent whether or not the credentials are
\* valid.
authenticate_stop_always_send(valid, username, role) == [pc |-> "send", result |-> <<>>]

\* Where authenticate stops first: at the await of the notification when
\* the credentials are valid, at the return of the failure message otherwise.
authenticate_stop(valid, username, role) ==
    IF valid THEN [pc |-> "send", result |-> <<>>]
    ELSE [pc |-> "return", result |-> AuthFailedMsg]

\* Mutant: logout without its `if not authenticated` test, as in server.py.
logout_stop_without_check(auth, username) == [pc |-> "send", result |-> <<>>]

\* Where logout stops first: at the return of "Already logged out" when the
\* session is not authenticated, at the await of the notification otherwise.
logout_stop(auth, username) ==
    IF ~auth THEN [pc |-> "return", result |-> AlreadyLoggedOutMsg]
    ELSE [pc |-> "send", result |-> <<>>]

\* Mutant: the farewell message built from user_data["username"] as it is
\* after the await, not from the local captured before the reset.
resume_result_reading_global(c, ud) ==
    IF c.op = "authenticate" THEN AuthSuccessMsg(c.username, ud.role)
    ELSE LogoutSuccessMsg(ud.username)

\* The return statement a resumed handler reaches after its await.
resume_result(c, ud) ==
    IF c.op = "authenticate" THEN AuthSuccessMsg(c.username, ud.role)
    ELSE LogoutSuccessMsg(c.username)

\* A handler that ended with an exception instead of a return value: the
\* tool call is answered with an error, not with a result of the handler.
Raised(op) == [op |-> op, result |-> <<"raise">>, notified |-> FALSE]

\* Mutant: an `except` around the await that undoes a login before the
\* exception goes on.
send_error_with_rollback(c, auth, ud, ts) ==
    IF c.op = "authenticate"
    THEN [authenticated |-> FALSE, user_data |-> LoggedOut(ud),
          tools |-> logout_tools(ts), pc |-> "raise"]
    ELSE [authenticated |-> auth, user_data |-> ud, tools |-> ts, pc |-> "raise"]

\* What a handler does when its await of send_tool_list_changed raises.
\* The await stands in no try block: no statement of the handler runs after
\* it, the globals and the tool table stay as the handler set them, and the
\* exception leaves the handler (pc "raise").
send_error(c, auth, ud, ts) ==
    [authenticated |-> auth, user_data |-> ud, tools |-> ts, pc |-> "raise"]

Free(i) == calls[i].pc = "idle"

\* Bound on the sends of the notification: those written, those that
\* raised, and those pending.
CanNotify ==
    sent + failed + Cardinality({j \in Slots : calls[j].pc = "send"}) < MaxSent

(***************************************************************************)
(* Observation of the handler runs that log in or out: the last three runs *)
(* of authenticate that passed the credential check and of logout, each    *)
(* with the session and tool table it left, `ok` (of a logout: the session *)
(* was authenticated when it ran) and `pc`, where the run stopped first:   *)
(* "send", at the await of the notification, or "return".                  *)
(***************************************************************************)
Snapshot(auth, ud, ts) ==
    [authenticated |-> auth, username |-> ud.username, role |-> ud.role, tools |-> ts]

Observe(h, e) == IF Len(h) < 3 THEN Append(h, e) ELSE Append(Tail(h), e)

\* No form has been constructed, no prompt has been started.
NoForm == [app |-> "none"]

NoSession == [app |-> "none"]

\* The interactive input code is not in use.
InputIdle ==
    /\ form = NoForm
    /\ elicitation_state = {}
    /\ in_multiline_mode = FALSE
    /\ session = NoSession

Init ==
    /\ authenticated = FALSE
    /\ user_data = InitialUserData
    /\ tools = InitialTools
    /\ calls = [i \in Slots |-> IdleCall]
    /\ response = NoResponse
    /\ sent = 0
    /\ failed = 0
    /\ hist = <<>>
    /\ InputIdle

(***************************************************************************)
(* Handler segments of auth_server.py.                                     *)
(***************************************************************************)
authenticate(i, username, password) ==
    LET valid == CredentialsValid(username, password)
        ud    == IF valid THEN LoggedIn(user_data, username) ELSE user_data
        ts    == IF valid THEN authenticate_tools(tools, ud.role) ELSE tools
        auth  == IF valid THEN TRUE ELSE authenticated
        stop  == authenticate_stop(valid, username, ud.role)
    IN /\ Free(i)
       /\ CanNotify
       /\ authenticated' = auth
       /\ user_data' = ud
       /\ tools' = ts
       /\ IF stop.pc = "send"
          THEN /\ calls' = [calls EXCEPT ![i] = Suspended("authenticate", username, ts # tools)]
               /\ UNCHANGED response
          ELSE /\ response' = Returned("authenticate", stop.result, FALSE)
               /\ UNCHANGED calls
       /\ hist' = IF valid
                  THEN Observe(hist, [op |-> "authenticate", username |-> username,
                                      ok |-> TRUE, pc |-> stop.pc,
                                      after |-> Snapshot(auth, ud, ts)])
                  ELSE hist
       /\ UNCHANGED <<sent, failed, input_vars>>

logout(i) ==
    LET username == user_data.username
        ud   == IF authenticated THEN LoggedOut(user_data) ELSE user_data
        ts   == IF authenticated THEN logout_tools(tools) ELSE tools
        stop == logout_stop(authenticated, username)
    IN /\ Free(i)
       /\ CanNotify
       /\ authenticated' = FALSE
       /\ user_data' = ud
       /\ tools' = ts
       /\ IF stop.pc = "send"
          THEN /\ calls' = [calls EXCEPT ![i] = Suspended("logout", username, ts # tools)]
               /\ UNCHANGED response
          ELSE /\ response' = Returned("logout", stop.result, FALSE)
               /\ UNCHANGED calls
       /\ hist' = Observe(hist, [op |-> "logout", username |-> username,
                                 ok |-> authenticated, pc |-> stop.pc,
                                 after |-> Snapshot(FALSE, ud, ts)])
       /\ UNCHANGED <<sent, failed, input_vars>>

\* The awaited send: the notification is written to the client session.
send_tool_list_changed(i) ==
    /\ calls[i].pc = "send"
    /\ sent' = sent + 1
    /\ calls' = [calls EXCEPT ![i].pc = "sent"]
    /\ UNCHANGED <<authenticated, user_data, tools, response, failed, hist, input_vars>>

\* The awaited send fails (the session's write stream is closed or broken):
\* nothing is written and the exception is raised in the handler.
send_tool_list_changed_raises(i) ==
    LET e == send_error(calls[i], authenticated, user_data, tools)
    IN /\ calls[i].pc = "send"
       /\ authenticated' = e.authenticated
       /\ user_data' = e.user_data
       /\ tools' = e.tools
       /\ IF e.pc = "raise"
          THEN /\ calls' = [calls EXCEPT ![i] = IdleCall]
               /\ response' = Raised(calls[i].op)
          ELSE UNCHANGED <<calls, response>>
       /\ failed' = failed + 1
       /\ UNCHANGED <<sent, hist, input_vars>>

\* The handler resumes after its await, logs, and returns its message.
Resume(i) ==
    /\ calls[i].pc = "sent"
    /\ response' = Returned(calls[i].op, resume_result(calls[i], user_data), TRUE)
    /\ calls' = [calls EXCEPT ![i] = IdleCall]
    /\ UNCHANGED <<authenticated, user_data, tools, sent, failed, hist, input_vars>>

\* Mutant: a handler that unregisters its tool when it refuses a call.
Protected_dropping_tool(op, result) ==
    /\ response' = Returned(op, result, FALSE)
    /\ tools' = IF result \in {NotAuthenticatedMsg, AdminRequiredMsg}
                THEN RemoveTool(tools, op) ELSE tools
    /\ UNCHANGED <<authenticated, user_data, calls, sent, failed, hist, input_vars>>

\* Mutant: a handler that ends the session when it refuses a call for the
\* role.
Protected_resetting_session(op, result) ==
    /\ response' = Returned(op, result, FALSE)
    /\ authenticated' = IF result = AdminRequiredMsg THEN FALSE ELSE authenticated
    /\ user_data' = IF result = AdminRequiredMsg THEN LoggedOut(user_data) ELSE user_data
    /\ UNCHANGED <<tools, calls, sent, failed, hist, input_vars>>

\* A protected handler: it awaits nothing, so it runs from call to return in
\* one piece.
Protected(op, result) ==
    /\ response' = Returned(op, result, FALSE)
    /\ UNCHANGED <<authenticated, user_data, tools, calls, sent, failed, hist, input_vars>>

list_files == Protected("list_files", list_files_result(authenticated, user_data))

read_file(filename) ==
    Protected("read_file", read_file_result(authenticated, user_data, filename))

get_user_info ==
    Protected("get_user_info", get_user_info_result(authenticated, user_data))

call_api(endpoint) ==
    Protected("call_api", call_api_result(authenticated, user_data, endpoint))

(***************************************************************************)
(* Spec: auth_server.py behind the tool manager, which runs a handler only *)
(* if the called name is in the tool table at the time of the call.        *)
(***************************************************************************)
Registered(name) == name \in ToolNames(tools)

Next ==
    \/ \E i \in Slots, u \in Usernames, p \in Passwords :
           Registered("authenticate") /\ authenticate(i, u, p)
    \/ \E i \in Slots : Registered("logout") /\ logout(i)
    \/ Registered("list_files") /\ list_files
    \/ \E f \in Filenames : Registered("read_file") /\ read_file(f)
    \/ Registered("get_user_info") /\ get_user_info
    \/ \E e \in Endpoints : Registered("call_api") /\ call_api(e)
    \/ \E i \in Slots : send_tool_list_changed(i)
    \/ \E i \in Slots : send_tool_list_changed_raises(i)
    \/ \E i \in Slots : Resume(i)

Spec == Init /\ [][Next]_vars

(***************************************************************************)
(* SpecHandlers: the handlers of auth_server.py run whether or not the     *)
(* tool table holds them (a handler reached for a tool that is no longer   *)
(* registered), the case the handlers' own `if not authenticated` checks   *)
(* are written for.                                                        *)
(***************************************************************************)
NextHandlers ==
    \/ \E i \in Slots, u \in Usernames, p \in Passwords : authenticate(i, u, p)
    \/ \E i \in Slots : logout(i)
    \/ list_files
    \/ \E f \in Filenames : read_file(f)
    \/ get_user_info
    \/ \E e \in Endpoints : call_api(e)
    \/ \E i \in Slots : send_tool_list_changed(i)
    \/ \E i \in Slots : send_tool_list_changed_raises(i)
    \/ \E i \in Slots : Resume(i)

SpecHandlers == Init /\ [][NextHandlers]_vars

(***************************************************************************)
(* server.py: the simplified server.  Same globals, tool table and await;  *)
(* its own credentials, tool descriptions, messages, and handlers without  *)
(* the `if not authenticated` checks.                                      *)
(***************************************************************************)
server_CREDENTIALS ==
    [admin |-> [password |-> "admin123", role |-> "admin"],
     user  |-> [password |-> "user123",  role |-> "user"]]

server_InitialUserData == [username |-> None, role |-> None]

server_AuthenticateTool ==
    [name |-> "authenticate", description |-> "Login with username and password"]

server_InitialTools == <<server_AuthenticateTool>>

\* `username not in CREDENTIALS or CREDENTIALS[username]["password"] != password`
server_CredentialsInvalid(username, password) ==
    \/ username \notin DOMAIN server_CREDENTIALS
    \/ server_CREDENTIALS[username].password # password

server_LoggedIn(ud, username) ==
    [ud EXCEPT !.username = username, !.role = server_CREDENTIALS[username].role]

server_RegisterProtectedTools(ts, role) ==
    IF role = "admin"
    THEN add_tool(add_tool(add_tool(add_tool(ts,
             "list_files", "List files (admin)"),
             "read_file", "Read files (admin)"),
             "get_user_info", "Get user info"),
             "logout", "Logout")
    ELSE add_tool(add_tool(add_tool(ts,
             "list_files", "List files (user)"),
             "get_user_info", "Get user info"),
             "logout", "Logout")

server_authenticate_tools(ts, role) ==
    server_RegisterProtectedTools(RemoveTool(ts, "authenticate"), role)

\* Mutant: a message that tells an unknown username from a wrong password.
server_AuthFailedMsg_naming_cause(username) ==
    IF username \in DOMAIN server_CREDENTIALS
    THEN <<"Wrong password for ", username>>
    ELSE <<"Unknown user ", username>>

server_AuthFailedMsg(username) == <<"Authentication failed for ", username>>

server_AuthSuccessMsg(username, role) ==
    <<"Welcome ", username, " (", role, ")! New tools available.">>

server_protected_tools == <<"list_files", "read_file", "get_user_info", "logout">>

server_logout_tools(ts) ==
    add_tool(RemoveTools(ts, server_protected_tools),
             server_AuthenticateTool.name, server_AuthenticateTool.description)

server_GoodbyeMsg(username) == <<"Goodbye ", username, "! You can authenticate again.">>

server_files == <<"document1.txt", "document2.txt", "secret.pdf">>

server_list_files_result(ud) ==
    LET files == IF ud.role # "admin"
                 THEN SelectSeq(server_files, LAMBDA f : ~IsSecret(f))
                 ELSE server_files
    IN <<"Files for ", ud.username, " (", ud.role, "):">> \o files

server_read_file_result(ud, filename) ==
    IF ud.role # "admin" THEN <<"Admin access required">>
    ELSE IF filename \notin Range(server_files)
         THEN <<"File '", filename, "' not found">>
    ELSE <<"Contents of ", filename, ":", "[File content would be here]">>

server_get_user_info_result(ud) == <<"User: ", ud.username, "Role: ", ud.role>>

server_resume_result(c, ud) ==
    IF c.op = "authenticate" THEN server_AuthSuccessMsg(c.username, ud.role)
    ELSE server_GoodbyeMsg(c.username)

server_Init ==
    /\ authenticated = FALSE
    /\ user_data = server_InitialUserData
    /\ tools = server_InitialTools
    /\ calls = [i \in Slots |-> IdleCall]
    /\ response = NoResponse
    /\ sent = 0
    /\ failed = 0
    /\ hist = <<>>
    /\ InputIdle

server_authenticate(i, username, password) ==
    /\ Free(i)
    /\ CanNotify
    /\ IF server_CredentialsInvalid(username, password)
       THEN /\ response' = Returned("authenticate", server_AuthFailedMsg(username), FALSE)
            /\ UNCHANGED <<authenticated, user_data, tools, calls, sent, failed, hist,
                           input_vars>>
       ELSE LET ud == server_LoggedIn(user_data, username)
                ts == server_authenticate_tools(tools, ud.role)
            IN /\ authenticated' = TRUE
               /\ user_data' = ud
               /\ tools' = ts
               /\ calls' = [calls EXCEPT ![i] = Suspended("authenticate", username, ts # tools)]
               /\ hist' = Observe(hist, [op |-> "authenticate", username |-> username,
                                         ok |-> TRUE, pc |-> "send",
                                         after |-> Snapshot(TRUE, ud, ts)])
               /\ UNCHANGED <<response, sent, failed, input_vars>>

\* logout of server.py: no check of `authenticated`; it always resets the
\* state, rebuilds the tool table and awaits the notification.
server_logout(i) ==
    LET username == user_data.username
        ud == server_InitialUserData
        ts == server_logout_tools(tools)
    IN /\ Free(i)
       /\ CanNotify
       /\ authenticated' = FALSE
       /\ user_data' = ud
       /\ tools' = ts
       /\ calls' = [calls EXCEPT ![i] = Suspended("logout", username, ts # tools)]
       /\ hist' = Observe(hist, [op |-> "logout", username |-> username,
                                 ok |-> authenticated, pc |-> "send",
                                 after |-> Snapshot(FALSE, ud, ts)])
       /\ UNCHANGED <<response, sent, failed, input_vars>>

server_Resume(i) ==
    /\ calls[i].pc = "sent"
    /\ response' = Returned(calls[i].op, server_resume_result(calls[i], user_data), TRUE)
    /\ calls' = [calls EXCEPT ![i] = IdleCall]
    /\ UNCHANGED <<authenticated, user_data, tools, sent, failed, hist, input_vars>>

server_list_files == Protected("list_files", server_list_files_result(user_data))

server_read_file(filename) ==
    Protected("read_file", server_read_file_result(user_data, filename))

server_get_user_info == Protected("get_user_info", server_get_user_info_result(user_data))

\* server.py behind the tool manager.
server_Next ==
    \/ \E i \in Slots, u \in Usernames, p \in Passwords :
           Registered("authenticate") /\ server_authenticate(i, u, p)
    \/ \E i \in Slots : Registered("logout") /\ server_logout(i)
    \/ Registered("list_files") /\ server_list_files
    \/ \E f \in Filenames : Registered("read_file") /\ server_read_file(f)
    \/ Registered("get_user_info") /\ server_get_user_info
    \/ \E i \in Slots : send_tool_list_changed(i)
    \/ \E i \in Slots : send_tool_list_changed_raises(i)
    \/ \E i \in Slots : server_Resume(i)

SpecServer == server_Init /\ [][server_Next]_vars

\* The handlers of server.py run whether or not the tool table holds them.
server_NextHandlers ==
    \/ \E i \in Slots, u \in Usernames, p \in Passwords : server_authenticate(i, u, p)
    \/ \E i \in Slots : server_logout(i)
    \/ server_list_files
    \/ \E f \in Filenames : server_read_file(f)
    \/ server_get_user_info
    \/ \E i \in Slots : send_tool_list_changed(i)
    \/ \E i \in Slots : send_tool_list_changed_raises(i)
    \/ \E i \in Slots : server_Resume(i)

SpecServerHandlers == server_Init /\ [][server_NextHandlers]_vars

(***************************************************************************)
(* Client sessions.  `authenticated`, `user_data` and `app` (with its tool  *)
(* table) are module-level objects: the process holds one of each, and the *)
(* handlers of every request read and write them, whichever client session *)
(* sent the request.  SessionView(s) is what the session s observes; a     *)
(* request slot i carries a request of the session i.                      *)
(***************************************************************************)
SessionView(s) ==
    [authenticated |-> authenticated, username |-> user_data.username,
     role |-> user_data.role, tools |-> ToolNames(tools)]

(***************************************************************************)
(* SpecEither: the process runs one of the two servers, auth_server.py or  *)
(* server.py, behind the tool manager.  The two are told apart by their    *)
(* global user_data: only that of auth_server.py holds the file list.      *)
(***************************************************************************)
IsAuthServer == "files" \in DOMAIN user_data

InitEither == Init \/ server_Init

NextEither == IF IsAuthServer THEN Next ELSE server_Next

SpecEither == InitEither /\ [][NextEither]_vars

(***************************************************************************)
(* elicitation_form.py: ElicitationForm, a full-screen form built from a   *)
(* JSON schema.  Its key bindings and button handlers run one at a time in *)
(* the application's event loop; the validation started by an edit         *)
(* (validate_while_typing) runs as a task of its own after the edit.       *)
(*                                                                         *)
(* Texts are sequences of characters.  An Optional value is <<>> for None  *)
(* and <<v>> for the value v.                                              *)
(***************************************************************************)
\* The schema the form is built for: a required short string, an optional
\* integer, an optional long string and a required choice.
properties == <<"name", "age", "notes", "color">>

required_fields == <<"name", "color">>

field_def ==
    [name  |-> [type |-> "string",  minLength |-> <<2>>, maxLength |-> <<>>,
                minimum |-> <<>>, maximum |-> <<>>, enum |-> <<>>],
     age   |-> [type |-> "integer", minLength |-> <<>>, maxLength |-> <<>>,
                minimum |-> <<1>>, maximum |-> <<>>, enum |-> <<>>],
     notes |-> [type |-> "string",  minLength |-> <<>>, maxLength |-> <<200>>,
                minimum |-> <<>>, maximum |-> <<>>, enum |-> <<>>],
     color |-> [type |-> "string",  minLength |-> <<>>, maxLength |-> <<>>,
                minimum |-> <<>>, maximum |-> <<>>, enum |-> <<"red", "blue">>]]

server_name == "files-server"

\* The texts a user types into each text field.
Typed ==
    [name  |-> {<<>>, <<" ">>, <<"a", "l">>},
     age   |-> {<<>>, <<"7">>, <<"0">>, <<"x">>},
     notes |-> {<<>>, <<"n">>}]

Whitespace == {" ", "\n"}

RECURSIVE lstrip(_)
lstrip(text) ==
    IF text # <<>> /\ Head(text) \in Whitespace THEN lstrip(Tail(text)) ELSE text

RECURSIVE rstrip(_)
rstrip(text) ==
    IF text # <<>> /\ text[Len(text)] \in Whitespace
    THEN rstrip(SubSeq(text, 1, Len(text) - 1))
    ELSE text

\* str.strip()
strip(text) == rstrip(lstrip(text))

Digits == <<"0", "1", "2", "3", "4", "5", "6", "7", "8", "9">>

\* Whether int(text) returns (it raises ValueError otherwise).
IsIntLiteral(text) ==
    /\ text # <<>>
    /\ \A i \in DOMAIN text : \E d \in DOMAIN Digits : Digits[d] = text[i]

RECURSIVE int(_)
int(text) ==
    IF text = <<>> THEN 0
    ELSE 10 * int(SubSeq(text, 1, Len(text) - 1))
         + (CHOOSE d \in DOMAIN Digits : Digits[d] = text[Len(text)]) - 1

\* str(n) of the small numbers the messages print.
str(n) == IF n = 1 THEN "1" ELSE IF n = 2 THEN "2" ELSE "0"

\* SimpleNumberValidator.validate: <<>> if the text is accepted, <<message>>
\* for the ValidationError raised.
SimpleNumberValidator(field_type, minimum, maximum, text) ==
    LET t == strip(text)
    IN IF t = <<>> THEN <<>>
       ELSE IF ~IsIntLiteral(t) THEN << <<"Invalid ", field_type>> >>
       ELSE IF minimum # <<>> /\ int(t) < minimum[1]
            THEN << <<"Must be >= ", str(minimum[1])>> >>
       ELSE IF maximum # <<>> /\ int(t) > maximum[1]
            THEN << <<"Must be <= ", str(maximum[1])>> >>
       ELSE <<>>

\* SimpleStringValidator.validate, on the text as typed (not stripped).
SimpleStringValidator(min_length, max_length, text) ==
    IF text = <<>> THEN <<>>
    ELSE IF min_length # <<>> /\ Len(text) < min_length[1]
         THEN << <<"Need ", str(min_length[1] - Len(text)), " more chars">> >>
    ELSE IF max_length # <<>> /\ Len(text) > max_length[1]
         THEN << <<"Too long by ", str(Len(text) - max_length[1]), " chars">> >>
    ELSE <<>>

\* The validator _create_field gives the Buffer of a field.
validator(field_name, text) ==
    LET d == field_def[field_name]
    IN IF d.type \in {"number", "integer"}
       THEN SimpleNumberValidator(d.type, d.minimum, d.maximum, text)
       ELSE SimpleStringValidator(d.minLength, d.maxLength, text)

\* _create_field: a string field whose maxLength is above 100 is multiline.
multiline_fields ==
    {properties[i] : i \in {j \in DOMAIN properties :
        LET d == field_def[properties[j]]
        IN d.type = "string" /\ d.enum = <<>> /\ d.maxLength # <<>>
           /\ d.maxLength[1] > 100}}

\* The widgets: a Buffer holds a text and the validation error of its last
\* validation, a RadioList the value chosen.
Buffer(text) ==
    [widget |-> "Buffer", text |-> text, validation_error |-> <<>>,
     current_value |-> <<>>]

RadioList(current_value) ==
    [widget |-> "RadioList", text |-> <<>>, validation_error |-> <<>>,
     current_value |-> current_value]

\* _create_field for each property; `default` is the schema's default of
\* the choice field, which the RadioList starts with.
field_widgets(default) ==
    [f \in {properties[i] : i \in DOMAIN properties} |->
        IF field_def[f].enum # <<>> THEN RadioList(default) ELSE Buffer(<<>>)]

Buttons == <<"Accept", "Decline", "Cancel", "Cancel All">>

\* The focusable windows in layout order: the fields, then the buttons.
FocusOrder == properties \o Buttons

FocusIndex(w) == CHOOSE i \in DOMAIN FocusOrder : FocusOrder[i] = w

\* layout.focus_next / focus_previous of prompt_toolkit.
focus_next(w) == FocusOrder[(FocusIndex(w) % Len(FocusOrder)) + 1]

focus_previous(w) ==
    FocusOrder[((FocusIndex(w) + Len(FocusOrder) - 2) % Len(FocusOrder)) + 1]

NoResult == <<>>

\* ElicitationForm.__init__ and _build_form: result None, action "cancel",
\* the focus on the first field, an empty status bar, the application not
\* yet left.
ElicitationForm(default) ==
    [action        |-> "cancel",
     result        |-> NoResult,
     field_widgets |-> field_widgets(default),
     focus         |-> properties[1],
     status        |-> <<>>,
     app           |-> "running",
     returned      |-> <<>>]

IsBuffer(w) == w.widget = "Buffer"

\* _is_in_multiline_field: the focus is on the Buffer of a multiline field.
_is_in_multiline_field(self) ==
    /\ self.focus \in DOMAIN self.field_widgets
    /\ IsBuffer(self.field_widgets[self.focus])
    /\ self.focus \in multiline_fields

title(field_name) == field_name

Least(S) == CHOOSE i \in S : \A j \in S : i <= j

\* _validate_form: the first text field with a validation error, else the
\* first required text field that is blank or required choice without a
\* value, else valid.
_validate_form(widgets) ==
    LET flagged == {i \in DOMAIN properties :
                       /\ IsBuffer(widgets[properties[i]])
                       /\ widgets[properties[i]].validation_error # <<>>}
        missing == {i \in DOMAIN required_fields :
                       LET w == widgets[required_fields[i]]
                       IN IF IsBuffer(w) THEN strip(w.text) = <<>>
                          ELSE w.current_value = <<>>}
    IN IF flagged # {}
       THEN LET f == properties[Least(flagged)]
            IN [is_valid |-> FALSE,
                error_msg |-> <<"'", title(f), "': ">> \o widgets[f].validation_error[1]]
       ELSE IF missing # {}
       THEN [is_valid |-> FALSE,
             error_msg |-> <<"'", title(required_fields[Least(missing)]), "' is required">>]
       ELSE [is_valid |-> TRUE, error_msg |-> <<>>]

Required(field_name) == \E i \in DOMAIN required_fields : required_fields[i] = field_name

\* _get_form_data: the dict of the fields' values, or the ValueError of an
\* integer field whose text is not a number.  A value is tagged with its
\* Python type.
_get_form_data(widgets) ==
    LET fields  == {properties[i] : i \in DOMAIN properties}
        value(f) == strip(widgets[f].text)
        bad     == {i \in DOMAIN properties :
                       LET f == properties[i]
                       IN /\ IsBuffer(widgets[f])
                          /\ field_def[f].type = "integer"
                          /\ value(f) # <<>>
                          /\ ~IsIntLiteral(value(f))}
        present == {f \in fields :
                       IF IsBuffer(widgets[f])
                       THEN value(f) # <<>> \/ ~Required(f)
                       ELSE widgets[f].current_value # <<>>}
    IN IF bad # {}
       THEN [raises |-> TRUE,
             message |-> <<"Invalid integer value for ", properties[Least(bad)]>>,
             data |-> <<>>]
       ELSE [raises |-> FALSE,
             message |-> <<>>,
             data |-> [f \in present |->
                         IF ~IsBuffer(widgets[f]) THEN <<"str", widgets[f].current_value[1]>>
                         ELSE IF value(f) = <<>> THEN <<"None">>
                         ELSE IF field_def[f].type = "integer" THEN <<"int", int(value(f))>>
                         ELSE <<"str", value(f)>>]]

\* _clear_status_bar and app.exit(): the status bar is taken out of the
\* layout and the application's result is set, which ends the processing
\* of keys.
exit(self) == [self EXCEPT !.status = <<>>, !.app = "done"]

\* Mutant: the form data is collected before the form is validated.
_accept_collecting_first(self) ==
    LET v == _validate_form(self.field_widgets)
        d == _get_form_data(self.field_widgets)
    IN IF d.raises
       THEN [self EXCEPT !.status = <<"Error: ">> \o d.message]
       ELSE IF ~v.is_valid
       THEN [self EXCEPT !.result = <<d.data>>,
                         !.status = <<"Error: ">> \o v.error_msg]
       ELSE exit([self EXCEPT !.result = <<d.data>>, !.action = "accept"])

\* _accept: an invalid form, or form data that cannot be converted, leaves
\* an error in the status bar; else the data is stored, the action becomes
\* "accept" and the application is left.
_accept(self) ==
    LET v == _validate_form(self.field_widgets)
        d == _get_form_data(self.field_widgets)
    IN IF ~v.is_valid
       THEN [self EXCEPT !.status = <<"Error: ">> \o v.error_msg]
       ELSE IF d.raises
       THEN [self EXCEPT !.status = <<"Error: ">> \o d.message]
       ELSE exit([self EXCEPT !.result = <<d.data>>, !.action = "accept"])

_cancel(self) == exit([self EXCEPT !.action = "cancel"])

_decline(self) == exit([self EXCEPT !.action = "decline"])

\* elicitation_state.disable_server(server_name)
disable_server(state, name) == state \cup {name}

_cancel_all(self) == exit([self EXCEPT !.action = "disable"])

\* The handler of each button.
handler(button, self) ==
    CASE button = "Accept"     -> _accept(self)
      [] button = "Cancel"     -> _cancel(self)
      [] button = "Decline"    -> _decline(self)
      [] button = "Cancel All" -> _cancel_all(self)

\* The dynamic-auth server as its module leaves it when imported.
ServerIdle ==
    /\ authenticated = FALSE
    /\ user_data = InitialUserData
    /\ tools = InitialTools
    /\ calls = [i \in Slots |-> IdleCall]
    /\ response = NoResponse
    /\ sent = 0
    /\ failed = 0
    /\ hist = <<>>

\* The form after construction, for a schema with or without a default for
\* the choice field.  Without one the RadioList starts on its first choice
\* or, the case _validate_form checks for, without a value.
form_Init ==
    /\ ServerIdle
    /\ \E default \in {<<>>, <<field_def.color.enum[1]>>} :
           form = ElicitationForm(default)
    /\ elicitation_state = {}
    /\ in_multiline_mode = FALSE
    /\ session = NoSession

Running == form.app = "running"

\* Tab, Down, Right: the focus moves to the next window.
key_tab ==
    /\ Running
    /\ form' = [form EXCEPT !.focus = focus_next(form.focus)]
    /\ UNCHANGED <<server_vars, elicitation_state, in_multiline_mode, session>>

\* Shift+Tab, Up, Left: the focus moves to the previous window.
key_s_tab ==
    /\ Running
    /\ form' = [form EXCEPT !.focus = focus_previous(form.focus)]
    /\ UNCHANGED <<server_vars, elicitation_state, in_multiline_mode, session>>

\* The user edits the text field that has the focus.  The Buffer drops the
\* validation error of the text it held; the new text is validated later.
insert_text(text) ==
    /\ Running
    /\ form.focus \in DOMAIN Typed
    /\ text \in Typed[form.focus]
    /\ form' = [form EXCEPT !.field_widgets[form.focus] = Buffer(text)]
    /\ UNCHANGED <<server_vars, elicitation_state, in_multiline_mode, session>>

\* The validation task of a Buffer (validate_while_typing=True) runs.
validate_while_typing(field_name) ==
    /\ Running
    /\ IsBuffer(form.field_widgets[field_name])
    /\ form' = [form EXCEPT !.field_widgets[field_name].validation_error =
                                validator(field_name, form.field_widgets[field_name].text)]
    /\ UNCHANGED <<server_vars, elicitation_state, in_multiline_mode, session>>

\* Enter.  The binding of the focused widget comes first: a button runs
\* its handler, the RadioList chooses the item under its cursor (any item
\* here).  On a text field the form's binding `submit` applies unless the
\* field is multiline (filter not_in_multiline), where the Buffer inserts a
\* newline.
key_enter ==
    /\ Running
    /\ LET w == form.focus
       IN IF \E b \in DOMAIN Buttons : Buttons[b] = w
          THEN /\ form' = handler(w, form)
               /\ elicitation_state' = IF w = "Cancel All"
                                       THEN disable_server(elicitation_state, server_name)
                                       ELSE elicitation_state
          ELSE /\ IF ~IsBuffer(form.field_widgets[w])
                  THEN \E v \in DOMAIN field_def[w].enum :
                          form' = [form EXCEPT !.field_widgets[w] =
                                       RadioList(<<field_def[w].enum[v]>>)]
                  ELSE IF _is_in_multiline_field(form)
                  THEN /\ Len(form.field_widgets[w].text) < MaxText
                       /\ form' = [form EXCEPT !.field_widgets[w] =
                                       Buffer(Append(form.field_widgets[w].text, "\n"))]
                  ELSE form' = _accept(form)
               /\ UNCHANGED elicitation_state
    /\ UNCHANGED <<server_vars, in_multiline_mode, session>>

\* Ctrl+J: the form's binding submit_alt, without a filter.
key_c_j ==
    /\ Running
    /\ form' = _accept(form)
    /\ UNCHANGED <<server_vars, elicitation_state, in_multiline_mode, session>>

\* ESC: the form's binding `cancel`, eager and global.
key_escape ==
    /\ Running
    /\ form' = _cancel(form)
    /\ UNCHANGED <<server_vars, elicitation_state, in_multiline_mode, session>>

\* run_async: app.run_async() has returned; the form returns its action
\* and result.
run_async ==
    /\ form.app = "done"
    /\ form' = [form EXCEPT !.app = "returned",
                            !.returned = <<form.action, form.result>>]
    /\ UNCHANGED <<server_vars, elicitation_state, in_multiline_mode, session>>

\* run_async: app.run_async() raises (the terminal fails while the
\* application runs or while it draws its last screen after exit()); the
\* except branch sets the action and the form returns.
run_async_except ==
    /\ form.app \in {"running", "done"}
    /\ form' = [form EXCEPT !.action = "cancel",
                            !.status = <<>>,
                            !.app = "returned",
                            !.returned = <<"cancel", form.result>>]
    /\ UNCHANGED <<server_vars, elicitation_state, in_multiline_mode, session>>

form_Next ==
    \/ key_tab
    \/ key_s_tab
    \/ \E t \in UNION {Typed[f] : f \in DOMAIN Typed} : insert_text(t)
    \/ \E f \in DOMAIN Typed : validate_while_typing(f)
    \/ key_enter
    \/ key_c_j
    \/ key_escape
    \/ run_async
    \/ run_async_except

SpecForm == form_Init /\ [][form_Next]_vars

(***************************************************************************)
(* enhanced_prompt.py: the prompt of get_enhanced_input.  The input mode   *)
(* is the module global in_multiline_mode; the key bindings of             *)
(* create_keybindings read it when a key arrives.                          *)
(***************************************************************************)
\* The characters a user types at the prompt.
Chars == {"a", "b"}

\* PromptSession(...) and create_keybindings(on_toggle_multiline=...): an
\* empty buffer, no result, and the record of the calls of the toggle
\* callback.  `multiline` is the argument get_enhanced_input was called
\* with; `key` is an observation, the last key the prompt handled.
PromptSession(multiline) ==
    [app       |-> "running",
     multiline |-> multiline,
     buffer    |-> <<>>,
     result    |-> <<>>,
     on_toggle_multiline |-> <<>>,
     key       |-> ""]

\* event.current_buffer.validate_and_handle(): the session has no
\* validator, so the buffer is accepted and the prompt ends with its text.
validate_and_handle(s) == [s EXCEPT !.app = "done", !.result = <<s.buffer>>]

\* event.current_buffer.insert_text("\n")
insert_newline(s) == [s EXCEPT !.buffer = Append(s.buffer, "\n")]

\* Mutant: Enter submits in either mode.
c_m_always_submitting(mode, s) == validate_and_handle(s)

\* The two bindings of "c-m" (Enter), chosen by their filters.
c_m(mode, s) == IF ~mode THEN validate_and_handle(s) ELSE insert_newline(s)

\* Mutant: Ctrl+J does nothing outside multiline mode.
c_j_multiline_only(mode, s) == IF mode THEN validate_and_handle(s) ELSE s

\* "c-j": the binding of create_keybindings applies in multiline mode.  In
\* normal mode its filter is off and the key falls to the basic bindings of
\* the PromptSession, which feed it back as Enter.
c_j(mode, s) == IF mode THEN validate_and_handle(s) ELSE c_m(mode, s)

\* "c-t": the mode is negated, then on_toggle_multiline(in_multiline_mode).
c_t(mode, s) ==
    [mode |-> ~mode,
     session |-> [s EXCEPT !.on_toggle_multiline = Append(@, ~mode)]]

\* get_enhanced_input: in_multiline_mode = multiline
reset_mode(mode, multiline) == multiline

prompt_Init ==
    /\ ServerIdle
    /\ form = NoForm
    /\ elicitation_state = {}
    /\ in_multiline_mode = FALSE
    /\ session = NoSession

Prompting == session.app = "running"

\* get_enhanced_input(multiline=...), up to its await of prompt_async.
get_enhanced_input(multiline) ==
    /\ ~Prompting
    /\ in_multiline_mode' = reset_mode(in_multiline_mode, multiline)
    /\ session' = PromptSession(multiline)
    /\ UNCHANGED <<server_vars, form, elicitation_state>>

\* A character is typed into the buffer.
prompt_insert_text(c) ==
    /\ Prompting
    /\ Len(session.buffer) < MaxText
    /\ session' = [session EXCEPT !.buffer = Append(@, c), !.key = c]
    /\ UNCHANGED <<server_vars, form, elicitation_state, in_multiline_mode>>

\* Enter
prompt_key_enter ==
    /\ Prompting
    /\ in_multiline_mode => Len(session.buffer) < MaxText
    /\ session' = [c_m(in_multiline_mode, session) EXCEPT !.key = "c-m"]
    /\ UNCHANGED <<server_vars, form, elicitation_state, in_multiline_mode>>

\* Ctrl+J
prompt_key_c_j ==
    /\ Prompting
    /\ session' = [c_j(in_multiline_mode, session) EXCEPT !.key = "c-j"]
    /\ UNCHANGED <<server_vars, form, elicitation_state, in_multiline_mode>>

\* Ctrl+T
prompt_key_c_t ==
    /\ Prompting
    /\ Len(session.on_toggle_multiline) < MaxToggles
    /\ in_multiline_mode' = c_t(in_multiline_mode, session).mode
    /\ session' = [c_t(in_multiline_mode, session).session EXCEPT !.key = "c-t"]
    /\ UNCHANGED <<server_vars, form, elicitation_state>>

\* Ctrl+L: the buffer is cleared.
prompt_key_c_l ==
    /\ Prompting
    /\ session' = [session EXCEPT !.buffer = <<>>, !.key = "c-l"]
    /\ UNCHANGED <<server_vars, form, elicitation_state, in_multiline_mode>>

prompt_Next ==
    \/ \E m \in BOOLEAN : get_enhanced_input(m)
    \/ \E c \in Chars : prompt_insert_text(c)
    \/ prompt_key_enter
    \/ prompt_key_c_j
    \/ prompt_key_c_t
    \/ prompt_key_c_l

SpecPrompt == prompt_Init /\ [][prompt_Next]_vars

(***************************************************************************)
(* The claims.  The role visibility table and the valid credential pairs   *)
(* are restated here as the claims give them.                              *)
(***************************************************************************)
PreAuthToolNames == {"authenticate"}
UserToolNames == {"list_files", "get_user_info", "logout"}
AdminToolNames == {"list_files", "read_file", "get_user_info", "call_api", "logout"}

ValidPairs == {<<"admin", "admin123">>, <<"user", "user123">>}

HistIdx == 1..Len(hist)

\* No handler has run yet.
NoCallYet ==
    /\ hist = <<>>
    /\ response = NoResponse
    /\ sent = 0
    /\ \A i \in Slots : calls[i] = IdleCall

IsSuccessMsg(r) ==
    /\ Len(r) > 0
    /\ r[1] \in {"Authentication successful! Welcome ", "Logout successful for "}

\* C1: in every state between handler segments, the session is authenticated
\* if and only if the tool table does not hold the authenticate tool.
C1_AuthenticatedIffAuthenticateAbsent ==
    authenticated <=> ("authenticate" \notin ToolNames(tools))

C1_Witness ==
    /\ authenticated
    /\ "authenticate" \notin ToolNames(tools)
    /\ \E k \in HistIdx : hist[k].op = "logout" /\ hist[k].ok

\* C2: the tool-name set is determined by the session: {authenticate} when
\* unauthenticated, the user set when the role is user, the administrator
\* set when the role is administrator.
C2_RegistryIsFunctionOfSession ==
    /\ ~authenticated => ToolNames(tools) = PreAuthToolNames
    /\ authenticated => user_data.role \in {"user", "administrator"}
    /\ (authenticated /\ user_data.role = "user") => ToolNames(tools) = UserToolNames
    /\ (authenticated /\ user_data.role = "administrator")
           => ToolNames(tools) = AdminToolNames

C2_Witness ==
    /\ authenticated
    /\ user_data.role = "user"
    /\ ToolNames(tools) = UserToolNames
    /\ \E k \in HistIdx : hist[k].op = "authenticate" /\ hist[k].username = "admin"

\* C3: an authenticate that succeeds from the tool table {authenticate}
\* leaves exactly the administrator set for the admin credential and exactly
\* the user set for the user credential.
C3_AuthenticateInstallsRoleSet ==
    [][\A i \in Slots :
          ( /\ ToolNames(tools) = PreAuthToolNames
            /\ calls[i].pc = "idle"
            /\ calls'[i].pc = "send"
            /\ calls'[i].op = "authenticate" )
          => /\ calls'[i].username \in {"admin", "user"}
             /\ calls'[i].username = "admin" => ToolNames(tools') = AdminToolNames
             /\ calls'[i].username = "user" => ToolNames(tools') = UserToolNames]_vars

C3_Witness ==
    /\ \E i \in Slots : /\ calls[i].pc = "send"
                        /\ calls[i].op = "authenticate"
                        /\ calls[i].username = "user"
    /\ ToolNames(tools) = UserToolNames
    /\ \E k \in HistIdx : /\ hist[k].op = "authenticate"
                          /\ hist[k].username = "admin"
                          /\ ToolNames(hist[k].after.tools) = AdminToolNames

\* C4: a logout run in an authenticated session leaves the tool table
\* exactly {authenticate} and goes on to the notification; protected tools
\* that are not registered are skipped without an error.
C4_LogoutResetsRegistry ==
    \A k \in HistIdx :
        (hist[k].op = "logout" /\ hist[k].ok)
        => /\ ToolNames(hist[k].after.tools) = PreAuthToolNames
           /\ Len(hist[k].after.tools) = 1
           /\ hist[k].pc = "send"

C4_Witness ==
    \E k \in 2..Len(hist) :
        /\ hist[k].op = "logout" /\ hist[k].ok
        /\ hist[k-1].op = "authenticate"
        /\ "read_file" \notin ToolNames(hist[k-1].after.tools)
        /\ "call_api" \notin ToolNames(hist[k-1].after.tools)
        /\ ToolNames(hist[k].after.tools) = PreAuthToolNames

\* C5: an authenticate with an unknown username or a wrong password returns
\* the failure message and changes nothing: the session stays
\* unauthenticated with no username and no role, the tool table is still
\* {authenticate}, and no notification is sent or pending.
C5_FailedAuthenticateChangesNothing ==
    [][\A i \in Slots, u \in Usernames, p \in Passwords :
          (<<u, p>> \notin ValidPairs /\ authenticate(i, u, p))
          => /\ response' = Returned("authenticate", AuthFailedMsg, FALSE)
             /\ ~authenticated'
             /\ user_data'.username = None /\ user_data'.role = None
             /\ ToolNames(tools') = PreAuthToolNames
             /\ UNCHANGED <<authenticated, user_data, tools, sent, failed, calls>>]_vars

C5_Witness ==
    /\ response = Returned("authenticate", AuthFailedMsg, FALSE)
    /\ ~authenticated
    /\ user_data.username = None /\ user_data.role = None
    /\ ToolNames(tools) = PreAuthToolNames
    /\ sent = 0
    /\ \A i \in Slots : calls[i] = IdleCall

\* C6: of two logout runs in a row, the first in an authenticated session,
\* the second leaves the session and the tool table as the first left them
\* and returns without going on to a notification.
C6_SecondLogoutChangesNothing ==
    \A k \in 2..Len(hist) :
        (hist[k-1].op = "logout" /\ hist[k-1].ok /\ hist[k].op = "logout")
        => /\ hist[k].after = hist[k-1].after
           /\ hist[k].pc = "return"

\* C7: authenticate(admin), logout, authenticate(admin) leaves the same tool
\* table and the same session as the first authenticate(admin) did.
C7_RoundTrip ==
    \A k \in 3..Len(hist) :
        ( /\ hist[k-2].op = "authenticate" /\ hist[k-2].username = "admin"
          /\ hist[k-1].op = "logout"
          /\ hist[k].op = "authenticate" /\ hist[k].username = "admin" )
        => hist[k].after = hist[k-2].after

C7_Witness ==
    /\ Len(hist) = 3
    /\ hist[1].op = "authenticate" /\ hist[1].username = "admin"
    /\ hist[2].op = "logout" /\ hist[2].ok
    /\ hist[3].op = "authenticate" /\ hist[3].username = "admin"
    /\ tools = hist[1].after.tools
    /\ ToolNames(tools) = AdminToolNames

\* C8: before any handler has run, the session is unauthenticated with no
\* username and no role and the tool table holds exactly one tool,
\* authenticate.
C8_InitialState ==
    NoCallYet => /\ authenticated = FALSE
                 /\ user_data.username = None
                 /\ user_data.role = None
                 /\ Len(tools) = 1
                 /\ ToolNames(tools) = PreAuthToolNames

C8_Witness == NoCallYet /\ tools = InitialTools

\* C9: authenticated is false if and only if username and role are both
\* None, and when it is true both are set.
C9_SessionFieldsConsistent ==
    /\ (authenticated = FALSE) <=> (user_data.username = None /\ user_data.role = None)
    /\ authenticated => (user_data.username # None /\ user_data.role # None)

C9_Witness ==
    /\ authenticated
    /\ user_data.username = "user" /\ user_data.role = "user"
    /\ \E k \in HistIdx : hist[k].op = "logout" /\ hist[k].ok

\* C10: every authenticate that succeeds and every logout of an
\* authenticated session goes on to the notification; the notification is
\* written only after the handler changed the tool table, and a success
\* message is returned only by a call whose notification was written.
C10_NotifyAfterMutationBeforeReturn ==
    /\ \A k \in HistIdx : hist[k].ok => hist[k].pc = "send"
    /\ \A i \in Slots : calls[i].pc = "sent" => calls[i].committed
    /\ IsSuccessMsg(response.result) => response.notified

C10_Witness ==
    /\ IsSuccessMsg(response.result)
    /\ response.notified
    /\ response.op = "logout"
    /\ sent >= 2

\* C11: when the send of the notification raises in authenticate or logout,
\* the session and the tool table stay as the handler set them (nothing is
\* undone), no notification is counted, and the handler ends: it does not
\* go back to the send, and no other send is started by the failure.
C11_FailedSendKeepsMutation ==
    [][\A i \in Slots :
          send_tool_list_changed_raises(i)
          => /\ UNCHANGED <<authenticated, user_data, tools, sent>>
             /\ calls'[i] = IdleCall
             /\ \A j \in Slots : calls'[j].pc = "send" => calls[j].pc = "send"]_vars

C11_Witness ==
    /\ response = Raised("authenticate")
    /\ failed = 1 /\ sent = 0
    /\ \A i \in Slots : calls[i] = IdleCall
    /\ authenticated
    /\ user_data.role = "administrator"
    /\ ToolNames(tools) = AdminToolNames

\* C12: when the send of the notification fails, the call is still answered
\* with the handler's normal message: the success message of authenticate,
\* the farewell message of logout.
C12_FailedSendNotReported ==
    [][\A i \in Slots :
          ( /\ calls[i].pc = "send"
            /\ failed' = failed + 1
            /\ calls'[i].pc = "idle" )
          => /\ response'.op = calls[i].op
             /\ IsSuccessMsg(response'.result)]_vars

\* The role the claims give for each valid username.
StoredRole(username) == IF username = "admin" THEN "administrator" ELSE "user"

\* C13: authenticate succeeds exactly for the pairs admin/admin123 and
\* user/user123.  A run with such a pair sets the session username to the
\* supplied username and the role to the role stored for it, and the success
\* message it returns holds that username and that role; every other pair,
\* a valid username with the other user's password included, gets the
\* failure message and no session.
C13_AuthenticateIffCredentialsValid ==
    [][/\ \A i \in Slots, u \in Usernames, p \in Passwords :
            authenticate(i, u, p)
            => IF <<u, p>> \in ValidPairs
               THEN /\ authenticated'
                    /\ user_data'.username = u
                    /\ user_data'.role = StoredRole(u)
                    /\ calls'[i].pc = "send"
               ELSE /\ response' = Returned("authenticate", AuthFailedMsg, FALSE)
                    /\ UNCHANGED <<authenticated, user_data>>
       /\ \A i \in Slots :
            (calls[i].op = "authenticate" /\ Resume(i))
            => response'.result
                   = AuthSuccessMsg(calls[i].username, StoredRole(calls[i].username))]_vars

\* A message with the supplied username text set aside.
Mask(r, username) ==
    [k \in DOMAIN r |-> IF r[k] = username THEN "<username>" ELSE r[k]]

InvalidPairs == (Usernames \X Passwords) \ ValidPairs

\* C14: the message of a failed authenticate does not tell an unknown
\* username from a known username with a wrong password.  The message a run
\* of server.py returns is, the echoed username aside, the message of every
\* other failing pair; the message of auth_server.py is the same for all
\* failing pairs.
C14_FailureCauseNotDisclosed ==
    [][\A i \in Slots, u \in Usernames, p \in Passwords :
          (server_authenticate(i, u, p) /\ server_CredentialsInvalid(u, p))
          => \A q \in InvalidPairs :
                /\ Mask(response'.result, u) = Mask(server_AuthFailedMsg(q[1]), q[1])
                /\ authenticate_stop(CredentialsValid(u, p), u, None).result
                      = authenticate_stop(CredentialsValid(q[1], q[2]), q[1], None).result]_vars

\* A known username with the other user's password was refused, after a
\* login and a logout.
C14_Witness ==
    /\ response = Returned("authenticate", server_AuthFailedMsg("admin"), FALSE)
    /\ ~authenticated
    /\ \E k \in HistIdx : hist[k].op = "logout" /\ hist[k].ok

\* The step is a call of the handler `op` that returned.  (A call that
\* returns what the last call returned, in the same state, is a step that
\* changes nothing.)
Answered(op) == response' # response /\ response'.op = op

\* C15: while the role of the session is user, every call of read_file and
\* of call_api, whatever its argument and whether or not the tool table
\* holds the tool, returns the administrator-required error and changes
\* neither the session nor the tool table.
C15_UserGetsRoleError ==
    [][(user_data.role = "user" /\ (Answered("read_file") \/ Answered("call_api")))
       => /\ response'.result = AdminRequiredMsg
          /\ UNCHANGED <<authenticated, user_data, tools>>]_vars

\* A user session whose tool table still holds read_file (authenticate ran
\* as admin, then as user) was refused by read_file.
C15_Witness ==
    /\ user_data.role = "user"
    /\ authenticated
    /\ "read_file" \in ToolNames(tools)
    /\ response = Returned("read_file", AdminRequiredMsg, FALSE)

\* The static file list and the static endpoint allow-list.
StaticFiles == Range(InitialUserData.files)
StaticEndpoints == Range(InitialUserData.api_endpoints)

FileContent(f) ==
    <<"Contents of ", f, ":", "[Simulated file content for demonstration]">>
FileNotFound(f) == <<"Error: File '", f, "' not found">>
ApiResponse(e) ==
    <<"API call to ", e, ":", "[Simulated API response for demonstration]">>
EndpointNotFound(e) == <<"Error: Endpoint '", e, "' not available">>

\* C16: while the role of the session is administrator, read_file(f)
\* returns the content of f if f is in the static file list and the
\* not-found error otherwise, call_api(e) returns a response if e is in the
\* static allow-list and the not-available error otherwise, and neither
\* ever returns the administrator-required error.
C16_AdminReadAndCall ==
    [][user_data.role = "administrator"
       => /\ \A f \in Filenames :
                read_file(f)
                => response'.result
                     = IF f \in StaticFiles THEN FileContent(f) ELSE FileNotFound(f)
          /\ \A e \in Endpoints :
                call_api(e)
                => response'.result
                     = IF e \in StaticEndpoints THEN ApiResponse(e)
                       ELSE EndpointNotFound(e)
          /\ (Answered("read_file") \/ Answered("call_api"))
                => response'.result # AdminRequiredMsg]_vars

C16_Witness ==
    /\ user_data.role = "administrator"
    /\ authenticated
    /\ response = Returned("call_api", EndpointNotFound("/admin"), FALSE)
    /\ \E k \in HistIdx : hist[k].op = "authenticate" /\ hist[k].username = "user"

\* C17: in an authenticated session list_files returns every file of the
\* static list that is not secret, returns a secret file if and only if the
\* role is administrator, and changes nothing.
C17_ListFilesByRole ==
    [][(authenticated /\ Answered("list_files"))
       => LET listed == Range(response'.result)
          IN /\ \A f \in StaticFiles : ~IsSecret(f) => f \in listed
             /\ (\E f \in listed : IsSecret(f)) <=> user_data.role = "administrator"
             /\ \A f \in StaticFiles :
                    IsSecret(f) => (f \in listed <=> user_data.role = "administrator")
             /\ UNCHANGED <<authenticated, user_data, tools, calls, sent, failed>>]_vars

C17_Witness ==
    /\ authenticated
    /\ user_data.role = "user"
    /\ response.op = "list_files"
    /\ "document1.txt" \in Range(response.result)
    /\ "document2.txt" \in Range(response.result)
    /\ "secret_report.pdf" \notin Range(response.result)
    /\ \E k \in HistIdx : hist[k].op = "authenticate" /\ hist[k].username = "admin"

\* C18: called while the session is not authenticated, list_files,
\* read_file, get_user_info and call_api return the not-authenticated error
\* and logout returns "Already logged out"; the session stays
\* unauthenticated, and the tool table, the notifications sent and the
\* pending handlers are unchanged.  None of these tools is in the tool table
\* of an unauthenticated session.
C18_UnauthenticatedCallRefused ==
    [][~authenticated
       => /\ ToolNames(tools) \cap AdminToolNames = {}
          /\ \A op \in {"list_files", "read_file", "get_user_info", "call_api"} :
                Answered(op)
                => /\ response' = Returned(op, NotAuthenticatedMsg, FALSE)
                   /\ ~authenticated'
                   /\ UNCHANGED <<user_data, tools, calls, sent, failed>>
          /\ \A i \in Slots :
                logout(i)
                => /\ response' = Returned("logout", AlreadyLoggedOutMsg, FALSE)
                   /\ ~authenticated'
                   /\ UNCHANGED <<user_data, tools, calls, sent, failed>>]_vars

C18_Witness ==
    /\ ~authenticated
    /\ response = Returned("call_api", NotAuthenticatedMsg, FALSE)
    /\ ToolNames(tools) = PreAuthToolNames
    /\ sent = 2
    /\ \A i \in Slots : calls[i] = IdleCall
    /\ \E k \in HistIdx : hist[k].op = "logout" /\ hist[k].ok

\* C19: in every state, a call of list_files, read_file, get_user_info or
\* call_api, with any argument and any result, leaves authenticated,
\* username and role, the tool table and the number of notifications sent
\* as they were; it starts no send either.
C19_ProtectedHandlersChangeNothing ==
    [][\A op \in {"list_files", "read_file", "get_user_info", "call_api"} :
          Answered(op)
          => /\ authenticated' = authenticated
             /\ user_data'.username = user_data.username
             /\ user_data'.role = user_data.role
             /\ tools' = tools
             /\ sent' = sent
             /\ calls' = calls]_vars

\* read_file was called while a logout waited in its send: it was refused
\* as not authenticated and the send of the logout is still pending.
C19_Witness ==
    /\ response = Returned("read_file", NotAuthenticatedMsg, FALSE)
    /\ \E i \in Slots : calls[i].pc = "send" /\ calls[i].op = "logout"
    /\ ~authenticated
    /\ sent = 1

UserInfo(username, role) ==
    <<"User: ", username, "Role: ", role, "Authenticated: ", "True">>

\* C20: in an authenticated session get_user_info returns the username and
\* the role of the most recent authenticate that passed the credential
\* check, with Authenticated: True, whatever logins and logouts came before.
C20_UserInfoIsLastLogin ==
    [][(authenticated /\ Answered("get_user_info"))
       => /\ Len(hist) > 0
          /\ hist[Len(hist)].op = "authenticate"
          /\ response'.result
                = UserInfo(hist[Len(hist)].username,
                           StoredRole(hist[Len(hist)].username))]_vars

\* admin logged in and out, user logged in: get_user_info names user.
C20_Witness ==
    /\ Len(hist) = 3
    /\ hist[1].op = "authenticate" /\ hist[1].username = "admin"
    /\ hist[2].op = "logout" /\ hist[2].ok
    /\ hist[3].op = "authenticate" /\ hist[3].username = "user"
    /\ authenticated
    /\ response = Returned("get_user_info", UserInfo("user", "user"), FALSE)

\* C21: a logout of an authenticated session captures the username of the
\* session, which is the username of the most recent login, and the
\* farewell message that logout returns names the captured username, never
\* None; so in auth_server.py and in server.py.
C21_FarewellNamesUser ==
    [][\A i \in Slots :
          /\ ( /\ authenticated
               /\ calls[i].pc = "idle"
               /\ calls'[i].pc = "send"
               /\ calls'[i].op = "logout" )
             => /\ calls'[i].username = user_data.username
                /\ calls'[i].username \in {"admin", "user"}
                /\ \E k \in HistIdx :
                      /\ hist[k].op = "authenticate"
                      /\ hist[k].username = calls'[i].username
                      /\ \A m \in (k+1)..Len(hist) : hist[m].op # "authenticate"
          /\ ( /\ calls[i].op = "logout"
               /\ calls[i].pc = "sent"
               /\ calls'[i].pc = "idle" )
             => /\ calls[i].username \in {"admin", "user"}
                /\ response'.result
                      = IF IsAuthServer THEN LogoutSuccessMsg(calls[i].username)
                        ELSE server_GoodbyeMsg(calls[i].username)]_vars

\* user logged in and out: the session fields are cleared and the farewell
\* names user.
C21_Witness ==
    /\ response = Returned("logout", LogoutSuccessMsg("user"), TRUE)
    /\ ~authenticated
    /\ user_data.username = None
    /\ Len(hist) = 2
    /\ hist[1].op = "authenticate" /\ hist[1].username = "user"
    /\ hist[2].op = "logout" /\ hist[2].username = "user"

\* C22: an authenticate or a logout of one client session changes nothing
\* of what another client session of the same server observes:
\* authenticated, username, role and the tool table.
C22_SessionsShareNothing ==
    [][\A a \in Slots : \A b \in Slots \ {a} :
          \A u \in Usernames, p \in Passwords :
              (authenticate(a, u, p) \/ logout(a))
              => SessionView(b)' = SessionView(b)]_vars

\* The tool table and the session a first login of `username` produces.
FreshTools(username) == authenticate_tools(InitialTools, StoredRole(username))
FreshUserData(username) == LoggedIn(InitialUserData, username)

\* C23: the tool table a login leaves, and the files list_files then shows,
\* are those of a first login with the same credentials, whatever logins and
\* logouts came before; after authenticate(admin), logout,
\* authenticate(user) the tool table holds neither read_file nor call_api
\* and list_files shows no secret file.
C23_NoResidualPrivilege ==
    [][/\ \A k \in 1..Len(hist') :
            hist'[k].op = "authenticate"
            => /\ hist'[k].after.tools = FreshTools(hist'[k].username)
               /\ hist'[k].username = "user"
                    => ToolNames(hist'[k].after.tools) \cap {"read_file", "call_api"} = {}
       /\ (authenticated /\ Answered("list_files"))
            => /\ response'.result
                    = list_files_result(TRUE, FreshUserData(hist[Len(hist)].username))
               /\ user_data.role = "user"
                    => \A f \in Range(response'.result) : ~IsSecret(f)]_vars

C23_Witness ==
    /\ Len(hist) = 3
    /\ hist[1].op = "authenticate" /\ hist[1].username = "admin"
    /\ hist[2].op = "logout" /\ hist[2].ok
    /\ hist[3].op = "authenticate" /\ hist[3].username = "user"
    /\ authenticated
    /\ ToolNames(tools) = UserToolNames
    /\ response = Returned("list_files",
                           list_files_result(TRUE, FreshUserData("user")), FALSE)

\* C24: an authenticate that passes the credential check leaves exactly the
\* tool set of its role, whatever the tool table held before, and while the
\* role of the session is user the tool table holds neither read_file nor
\* call_api.
C24_InstallRoleSetFromAnyRegistry ==
    [][/\ \A i \in Slots, u \in Usernames, p \in Passwords :
            (authenticate(i, u, p) /\ <<u, p>> \in ValidPairs)
            => ToolNames(tools')
                 = IF u = "admin" THEN AdminToolNames ELSE UserToolNames
       /\ user_data'.role = "user"
            => ToolNames(tools') \cap {"read_file", "call_api"} = {}]_vars

\* A logout is between its await and its return.
LogoutInFlight == \E i \in Slots : calls[i].op = "logout" /\ calls[i].pc \in {"send", "sent"}

\* The results a protected handler returns in the complete session of a
\* logged-in user.
NormalResults(op) ==
    LET sessions == {FreshUserData(u) : u \in {"admin", "user"}}
    IN IF op = "list_files" THEN {list_files_result(TRUE, ud) : ud \in sessions}
       ELSE IF op = "get_user_info" THEN {get_user_info_result(TRUE, ud) : ud \in sessions}
       ELSE IF op = "read_file"
            THEN {read_file_result(TRUE, ud, f) : ud \in sessions, f \in Filenames}
       ELSE {call_api_result(TRUE, ud, e) : ud \in sessions, e \in Endpoints}

\* C25: a protected handler that runs while a logout is in flight finds
\* either the complete session of a logged-in user and returns its normal
\* result, or the session after the logout and returns the
\* not-authenticated error.  No state between handler segments has
\* authenticated = true with username or role cleared, and none has an
\* empty tool table or one that is not the set of a role.
C25_LogoutIsOneTransition ==
    [][/\ authenticated' => /\ user_data'.username \in {"admin", "user"}
                            /\ user_data'.role = StoredRole(user_data'.username)
       /\ ~authenticated' => /\ user_data'.username = None /\ user_data'.role = None
                             /\ ToolNames(tools') = PreAuthToolNames
       /\ tools' # <<>>
       /\ ToolNames(tools') \in {PreAuthToolNames, UserToolNames, AdminToolNames}
       /\ \A op \in {"list_files", "read_file", "get_user_info", "call_api"} :
            (LogoutInFlight /\ Answered(op))
            => IF authenticated THEN response'.result \in NormalResults(op)
               ELSE response'.result = NotAuthenticatedMsg]_vars

C25_Witness ==
    /\ \E i \in Slots : calls[i].op = "logout" /\ calls[i].pc = "sent"
    /\ response = Returned("list_files", NotAuthenticatedMsg, FALSE)
    /\ ~authenticated
    /\ ToolNames(tools) = PreAuthToolNames

\* The sends of the notification issued so far: written, raised, or pending
\* in a handler that reached its await.
Issued == sent + failed + Cardinality({i \in Slots : calls[i].pc = "send"})

\* The step is an authenticate that passes the credential check or a logout
\* of an authenticated session.  Such a run is appended to hist with ok;
\* hist can stay as it is under an appended run only if it is full of that
\* one run, and then the step is compared with the handlers themselves.
StateChangingCall ==
    IF hist' # hist THEN hist'[Len(hist')].ok
    ELSE /\ Len(hist) = 3 /\ hist[1] = hist[3] /\ hist[2] = hist[3]
         /\ \/ \E i \in Slots, q \in ValidPairs : authenticate(i, q[1], q[2])
            \/ authenticated /\ \E i \in Slots : logout(i)

\* C26 as the claim states it: once no call is in its await, the number of
\* notifications written equals the number of authenticate runs that passed
\* the credential check plus the number of logout runs of an authenticated
\* session.
C26_SentEqualsStateChanges ==
    ((\A i \in Slots : calls[i].pc = "idle") /\ Len(hist) < 3)
    => sent = Cardinality({k \in HistIdx : hist[k].ok})

\* C26, amended: the handlers issue exactly one send of the notification for every
\* authenticate that passes the credential check and every logout of an
\* authenticated session, and none for any other call: a failed
\* authenticate, a protected handler, a logout of an unauthenticated
\* session.  A send is written at most once, by the call that issued it;
\* a send that raises writes no notification.
C26_OneNotificationPerTransition ==
    [][/\ Issued' = Issued + (IF StateChangingCall THEN 1 ELSE 0)
       /\ sent' \in {sent, sent + 1}
       /\ sent' = sent + 1
            => \E i \in Slots : calls[i].pc = "send" /\ calls'[i].pc = "sent"
       /\ Len(hist') < 3
            => Issued' = Cardinality({k \in 1..Len(hist') : hist'[k].ok})]_vars

C26_Witness ==
    /\ Len(hist) = 3
    /\ hist[1].op = "authenticate"
    /\ hist[2].op = "logout" /\ hist[2].ok
    /\ hist[3].op = "logout" /\ ~hist[3].ok
    /\ response = Returned("authenticate", AuthFailedMsg, FALSE)
    /\ \A i \in Slots : calls[i] = IdleCall
    /\ sent = 2 /\ failed = 0

\* C27: a handler of server.py called while the session is not
\* authenticated returns a not-authenticated result that holds no file name
\* and no user data, and the call sends no notification and changes nothing.
C27_ServerHandlersRevalidate ==
    [][~authenticated
       => /\ \A op \in {"list_files", "read_file", "get_user_info"} :
                Answered(op)
                => /\ response'.result \in {NotAuthenticatedMsg, AlreadyLoggedOutMsg}
                   /\ Range(response'.result) \cap Range(server_files) = {}
                   /\ "User: " \notin Range(response'.result)
          /\ \A i \in Slots :
                server_logout(i)
                => /\ calls' = calls
                   /\ UNCHANGED <<authenticated, user_data, tools, sent, failed>>]_vars

\* C28: after every authenticate and every logout, server.py and
\* auth_server.py hold the same tool names, those of the role visibility
\* table: the tool set a call leaves is the set auth_server.py leaves after
\* the same call, the administrator set (with call_api) after a login of
\* admin, the user set after a login of user, {authenticate} after a logout.
C28_ServersExposeSameTools ==
    \A k \in HistIdx :
        /\ ToolNames(hist[k].after.tools)
              = IF hist[k].op = "authenticate"
                THEN ToolNames(FreshTools(hist[k].username))
                ELSE ToolNames(logout_tools(FreshTools("admin")))
        /\ (hist[k].op = "authenticate" /\ hist[k].username = "admin")
              => ToolNames(hist[k].after.tools) = AdminToolNames
        /\ (hist[k].op = "authenticate" /\ hist[k].username = "user")
              => ToolNames(hist[k].after.tools) = UserToolNames
        /\ hist[k].op = "logout"
              => ToolNames(hist[k].after.tools) = PreAuthToolNames

\* C29: the tool table is never empty.  In an unauthenticated state it
\* holds authenticate, and authenticate with either valid pair leaves an
\* authenticated session whose tool table holds logout; in an authenticated
\* state it holds logout, and that one logout leaves an unauthenticated
\* session whose tool table holds authenticate.
C29_AlwaysAnExit ==
    /\ tools # <<>>
    /\ ~authenticated
         => /\ Registered("authenticate")
            /\ \A q \in ValidPairs :
                  /\ CredentialsValid(q[1], q[2])
                  /\ authenticate_stop(TRUE, q[1], StoredRole(q[1])).pc = "send"
                  /\ LoggedIn(user_data, q[1]).role = StoredRole(q[1])
                  /\ "logout" \in ToolNames(authenticate_tools(tools, StoredRole(q[1])))
    /\ authenticated
         => /\ Registered("logout")
            /\ logout_stop(authenticated, user_data.username).pc = "send"
            /\ LoggedOut(user_data).role = None
            /\ ToolNames(logout_tools(tools)) = PreAuthToolNames

C29_Witness ==
    /\ authenticated
    /\ user_data.role = "user"
    /\ Registered("logout")
    /\ ~Registered("authenticate")
    /\ \E i \in Slots : calls[i].pc = "sent" /\ calls[i].op = "authenticate"
    /\ \E k \in HistIdx : hist[k].op = "logout"

\* The error results: authentication failure, permission denied, not found,
\* not authenticated.
ErrorResults ==
    {AuthFailedMsg, AdminRequiredMsg, NotAuthenticatedMsg}
        \cup {FileNotFound(f) : f \in Filenames}
        \cup {EndpointNotFound(e) : e \in Endpoints}

\* C30: a call that returns an error result leaves the session, the tool
\* table, the handlers in flight and the notification counters as they
\* were: the state after it differs from the state before it in the
\* returned result only, so whatever follows runs as if the call had not
\* been made.
C30_ErrorsChangeNothing ==
    [][(response' # response /\ response'.result \in ErrorResults)
       => /\ response'.op \in {"authenticate", "list_files", "read_file",
                                "get_user_info", "call_api"}
          /\ UNCHANGED <<authenticated, user_data, tools, calls, sent, failed, hist>>]_vars

\* read_file of a missing file was answered with the not-found error while
\* an authenticate of admin waits in its send.
C30_Witness ==
    /\ response = Returned("read_file", FileNotFound("nonexistent.txt"), FALSE)
    /\ authenticated
    /\ \E i \in Slots : /\ calls[i].pc = "send"
                        /\ calls[i].op = "authenticate"
                        /\ calls[i].username = "admin"
    /\ ToolNames(tools) = AdminToolNames

\* C31: read_file and call_api test authentication first, then the role,
\* then the existence of the file or endpoint: every call in an
\* unauthenticated session returns the not-authenticated error, and every
\* call in a session of the role user returns the administrator-required
\* error, for a file or endpoint that does not exist as for one that does,
\* never the not-found error.
C31_ErrorPrecedence ==
    [][/\ \A f \in Filenames :
            read_file(f)
            => response'.result
                 = IF ~authenticated THEN NotAuthenticatedMsg
                   ELSE IF user_data.role # "administrator" THEN AdminRequiredMsg
                   ELSE IF f \notin StaticFiles THEN FileNotFound(f)
                   ELSE FileContent(f)
       /\ \A e \in Endpoints :
            call_api(e)
            => response'.result
                 = IF ~authenticated THEN NotAuthenticatedMsg
                   ELSE IF user_data.role # "administrator" THEN AdminRequiredMsg
                   ELSE IF e \notin StaticEndpoints THEN EndpointNotFound(e)
                   ELSE ApiResponse(e)
       /\ (user_data.role # "administrator"
              /\ (Answered("read_file") \/ Answered("call_api")))
            => response'.result \in {NotAuthenticatedMsg, AdminRequiredMsg}]_vars

\* call_api was refused for the role in a session of user whose tool table
\* does not hold it.
C31_Witness ==
    /\ authenticated
    /\ user_data.role = "user"
    /\ ToolNames(tools) = UserToolNames
    /\ response = Returned("call_api", AdminRequiredMsg, FALSE)
    /\ Filenames \ StaticFiles # {}
    /\ Endpoints \ StaticEndpoints # {}

\* C32: when every call goes through the tool table, no step takes the role
\* of the session from user to administrator or back: a role is set only
\* in an unauthenticated session, by authenticate, and is left only for the
\* unauthenticated session, by logout.
C32_NoDirectRoleChange ==
    [][/\ user_data.role # None
            => user_data'.role \in {user_data.role, None}
       /\ user_data'.role # user_data.role
            => IF user_data.role = None
               THEN /\ ~authenticated /\ authenticated'
                    /\ hist' # hist
                    /\ hist'[Len(hist')].op = "authenticate"
               ELSE /\ authenticated /\ ~authenticated'
                    /\ hist' # hist
                    /\ hist'[Len(hist')].op = "logout"]_vars

\* The session was user, then unauthenticated, and is now administrator.
C32_Witness ==
    /\ Len(hist) = 3
    /\ hist[1].op = "authenticate" /\ hist[1].after.role = "user"
    /\ hist[2].op = "logout" /\ hist[2].after.role = None
    /\ ~hist[2].after.authenticated
    /\ hist[3].op = "authenticate" /\ hist[3].after.role = "administrator"
    /\ user_data.role = "administrator"

\* The files list_files shows to a role, from the file list as it is at the
\* start.
FilesShownTo(role) ==
    IF role = "user"
    THEN SelectSeq(InitialUserData.files, LAMBDA f : ~IsSecret(f))
    ELSE InitialUserData.files

\* C33: the file list and the endpoint list in user_data are in every state
\* what they are at the start (the credential directory is assigned nowhere
\* and is a constant here), both valid pairs still pass the credential
\* check, and whenever list_files answered an authenticated session its
\* result names the role of that session and lists exactly the files that
\* role is shown from the initial list.
C33_StaticConfigurationUnchanged ==
    /\ user_data.files = InitialUserData.files
    /\ user_data.api_endpoints = InitialUserData.api_endpoints
    /\ \A q \in ValidPairs : CredentialsValid(q[1], q[2])
    /\ list_files_result(TRUE, FreshUserData("user")) =
           <<"Available files for ", "user", " (", "user", "):">> \o FilesShownTo("user")
    /\ (response.op = "list_files" /\ response.result # NotAuthenticatedMsg)
         => /\ Len(response.result) > 5
            /\ response.result[4] \in {"user", "administrator"}
            /\ SubSeq(response.result, 6, Len(response.result))
                  = FilesShownTo(response.result[4])

\* After a login, a logout and a second login, list_files showed the
\* administrator the three files of the initial list.
C33_Witness ==
    /\ Len(hist) = 3
    /\ hist[1].op = "authenticate"
    /\ hist[2].op = "logout" /\ hist[2].ok
    /\ hist[3].op = "authenticate" /\ hist[3].username = "admin"
    /\ response.op = "list_files"
    /\ SubSeq(response.result, 6, Len(response.result)) = InitialUserData.files
    /\ user_data.files = InitialUserData.files

\* The text fields and the choice fields of the form's schema.
TextFields == {"name", "age", "notes"}
ChoiceFields == {"color"}
RequiredFields == {"name", "color"}

\* No text field has a validation error and every required text or choice
\* field has a value.
FormValid ==
    /\ \A f \in TextFields : form.field_widgets[f].validation_error = <<>>
    /\ \A f \in RequiredFields \cap TextFields : strip(form.field_widgets[f].text) # <<>>
    /\ \A f \in RequiredFields \cap ChoiceFields : form.field_widgets[f].current_value # <<>>

\* The user presses Enter on the Accept button or on a single-line text
\* field, or Ctrl+J anywhere.
AcceptAttempt ==
    \/ key_c_j
    \/ /\ key_enter
       /\ form.focus \in {"Accept", "name", "age"}

C34_Outcome ==
    /\ form.action \in {"cancel", "accept", "decline", "disable"}
    /\ form.app = "running" => form.action = "cancel"
    /\ form.result # NoResult => form.action = "accept"
    /\ form.app = "returned" =>
           (form.returned[2] # NoResult => form.returned[1] = "accept")

C34_AcceptOnlyIfValid ==
    /\ form.action # "accept" /\ form'.action = "accept" => FormValid
    /\ AcceptAttempt =>
           IF form'.app # "running"
           THEN FormValid /\ form'.action = "accept"
           ELSE /\ form'.action = form.action
                /\ form'.result = form.result
                /\ form'.status # <<>>
                /\ form'.status[1] = "Error: "

\* C34: the form's action is always one of cancel, accept, decline and
\* disable and is cancel from construction until the form is left; the
\* result is non-null only when the action is accept, also in what
\* run_async returns; the form is accepted, through the Accept button, Enter
\* or Ctrl+J, only if no text field has a validation error and every
\* required text or choice field has a value, and an attempt that does not
\* accept leaves the form open, its action and result unchanged, with an
\* error in the status bar.
C34_OutcomeInvariant ==
    [][C34_Outcome /\ C34_Outcome' /\ C34_AcceptOnlyIfValid]_vars

Closed(action) ==
    /\ form'.app = "done"
    /\ form'.action = action
    /\ form'.result = NoResult

\* C35: ESC (and the Cancel button) closes the form with action cancel
\* whatever has the focus and whatever the fields hold; Decline closes it
\* with action decline; Cancel All closes it with action disable and the
\* form's server is disabled for further elicitations; after each of them
\* the result is None, and a form that was not accepted returns None as its
\* result.
C35_EscDeclineCancelAll ==
    [][/\ key_escape => Closed("cancel")
       /\ key_enter /\ form.focus = "Cancel" => Closed("cancel")
       /\ key_enter /\ form.focus = "Decline" => Closed("decline")
       /\ key_enter /\ form.focus = "Cancel All" =>
              Closed("disable") /\ server_name \in elicitation_state'
       /\ (run_async \/ run_async_except) /\ form.action # "accept" =>
              form'.returned[2] = NoResult]_vars

\* ESC was pressed with the focus in the multiline field while the age
\* field had a validation error and the required fields were filled: the
\* form is closed with action cancel and without a result.
C35_Witness ==
    /\ form.app = "done"
    /\ form.action = "cancel"
    /\ form.result = NoResult
    /\ form.focus = "notes"
    /\ form.field_widgets["age"].validation_error # <<>>
    /\ form.field_widgets["name"].text = <<"a", "l">>
    /\ form.field_widgets["color"].current_value # <<>>

Submitted == session'.app = "done" /\ session'.result = <<session.buffer>>

NewlineInserted ==
    /\ session'.app = "running"
    /\ session'.buffer = Append(session.buffer, "\n")

\* C36: Enter submits the buffer exactly when multiline mode is off and
\* inserts a newline exactly when it is on; Ctrl+T negates the mode and
\* calls the toggle callback with the new mode, so that after an even number
\* of toggles the mode is the one the prompt started with; every call of
\* get_enhanced_input sets the mode to its multiline argument.
C36_InputModeMachine ==
    [][/\ prompt_key_enter =>
              /\ Submitted <=> ~in_multiline_mode
              /\ NewlineInserted <=> in_multiline_mode
              /\ in_multiline_mode' = in_multiline_mode
       /\ prompt_key_c_t =>
              /\ in_multiline_mode' = ~in_multiline_mode
              /\ session'.on_toggle_multiline
                     = Append(session.on_toggle_multiline, in_multiline_mode')
       /\ session'.app = "running" =>
              ((in_multiline_mode' = session'.multiline)
                   <=> Len(session'.on_toggle_multiline) % 2 = 0)
       /\ (\E m \in BOOLEAN : get_enhanced_input(m)) =>
              in_multiline_mode' = session'.multiline]_vars

\* A prompt started in multiline mode, where Enter put a newline into the
\* buffer; the mode was toggled off, and on and off again, and Enter
\* submitted the buffer.
C36_Witness ==
    /\ session.app = "done"
    /\ session.key = "c-m"
    /\ session.multiline
    /\ session.on_toggle_multiline = <<FALSE, TRUE, FALSE>>
    /\ ~in_multiline_mode
    /\ session.result = << <<"a", "\n">> >>

====
